---- MODULE Spec2Model ----
(***************************************************************************)
(* Portfolio: the Express/Mongoose persistence service (src/server.js) and *)
(* the browser-side PortfolioManager (src/unnamed/part_000, script.js).    *)
(*                                                                         *)
(* The two halves share no state.  Each has its own specification over the *)
(* same variables; the variables of the other half stay at their initial   *)
(* values.                                                                 *)
(*                                                                         *)
(* Modelling notes.                                                        *)
(*  - The handlers are modelled as written.  Two top-level defects of the  *)
(*    sources stop either file from running at all and are not modelled:   *)
(*    server.js:120 calls nodemailer.createTransporter (the library        *)
(*    function is createTransport), and part_000:248 holds a stray "}" in  *)
(*    the seed list.                                                       *)
(*  - A handler with one store call is one atomic step.  POST /api/contact *)
(*    (two awaits) and GET /api/analytics (six awaits) are one step per    *)
(*    await, and other requests may run between the steps.                 *)
(*  - storeUp / mailUp are the environment: whether the document store or  *)
(*    the mail transport answers.  A store call made while storeUp is      *)
(*    FALSE rejects and control passes to the handler's catch block.       *)
(*  - Text that the code takes apart (the technologies string, a card's    *)
(*    className) is a sequence of one-character strings, or of words and   *)
(*    blanks; text that is only stored and compared is a TLA+ string.      *)
(***************************************************************************)
EXTENDS Integers, Sequences, FiniteSets, TLC

\* ------------------------------------------------------------------ bounds
MaxOid == 2        \* projects the store ever creates
MaxContacts == 1   \* contacts the store ever creates
MaxClock == 2      \* server clock readings 1..MaxClock
MaxFiles == 1      \* image files ever uploaded
MaxReq == 2        \* POST /api/contact requests in flight
MaxLen == 4        \* length of a technologies input string
MaxList == 3       \* records in the client list
MaxTime == 4       \* client clock readings up to MaxTime
ClockStart == 2    \* client clock at page load; the seed's id is 1

VARIABLES
    dbProjects,    \* the Project collection: a set of documents
    dbContacts,    \* the Contact collection: a set of documents
    files,         \* paths of the files on disk
    projectOid,    \* the next id the store gives a project
    contactOid,    \* the next id the store gives a contact
    fileSeq,       \* the next upload file name
    now,           \* server clock (Date.now)
    storeUp,       \* the document store answers
    mailUp,        \* the mail transport answers
    creq,          \* POST /api/contact requests: position and outcome
    an,            \* the GET /api/analytics request: position and locals
    anDirty,       \* history: a write was processed since an's first query
    resp,          \* the last response sent by a one-step handler
    projects,      \* client: PortfolioManager.projects
    localStorage,  \* client: the value under 'portfolio-projects'
    grid,          \* client: the cards in #projects-grid
    activeFilter,  \* client: data-filter of the .filter-btn holding 'active'
    clock,         \* client: Date.now
    techInput,     \* the technologies string under parse
    techStored     \* the record's technologies after create / Add

serverVars == <<dbProjects, dbContacts, files, projectOid, contactOid, fileSeq, now, storeUp,
                mailUp, creq, an, anDirty, resp>>
clientVars == <<projects, localStorage, grid, activeFilter, clock>>
techVars == <<techInput, techStored>>
vars == <<serverVars, clientVars, techVars>>

\* JavaScript's undefined: a query parameter or form field that was not sent.
\* (A form input left empty is sent, as ''.)
undefined == "undefined"

\* ------------------------------------------------- technologies parsing
Whitespace == {" "}

RECURSIVE SplitComma(_)
\* String.prototype.split(','): the pieces between the commas, in order.
SplitComma(s) ==
    IF \A i \in 1..Len(s) : s[i] # ","
    THEN <<s>>
    ELSE LET i == CHOOSE k \in 1..Len(s) :
                      s[k] = "," /\ \A j \in 1..(k-1) : s[j] # ","
         IN  <<SubSeq(s, 1, i-1)>> \o SplitComma(SubSeq(s, i+1, Len(s)))

RECURSIVE TrimStart(_)
TrimStart(s) ==
    IF s # <<>> /\ Head(s) \in Whitespace THEN TrimStart(Tail(s)) ELSE s

RECURSIVE TrimEnd(_)
TrimEnd(s) ==
    IF s # <<>> /\ s[Len(s)] \in Whitespace
    THEN TrimEnd(SubSeq(s, 1, Len(s)-1)) ELSE s

\* String.prototype.trim
Trim(s) == TrimEnd(TrimStart(s))

NoTrimTechnologies(s) == SplitComma(s)

\* value.split(',').map(tech => tech.trim())
ParseTechnologies(s) ==
    [i \in 1..Len(SplitComma(s)) |-> Trim(SplitComma(s)[i])]

\* ------------------------------------------------------- server: schema
CategoryEnum == {"web", "mobile", "ai"}

DirName == <<"app">>
\* express.static('public') (relative to the working directory) and
\* sendFile(path.join(__dirname, 'public', ...)) name the same directory
\* only when the server is started in its own directory.
Cwd == DirName

UploadDir == <<"uploads", "projects">>

NoFile == "none"

\* A string field is "required": undefined, null and '' are rejected.
Required(v) == v # undefined /\ v # ""

\* projectSchema, as document.save() enforces it.
ValidateProject(d) ==
    /\ Required(d.title)
    /\ Required(d.description)
    /\ Required(d.category)
    /\ d.category \in CategoryEnum
    /\ \A i \in 1..Len(d.technologies) : d.technologies[i] # <<>>

\* contactSchema, as document.save() enforces it.
ValidateContact(d) ==
    Required(d.name) /\ Required(d.email) /\ Required(d.message)

Ids(coll) == {d.id : d \in coll}

FindById(coll, id) == {d \in coll : d.id = id}

\* ------------------------------------------------------ request payloads
BaseBody ==
    [title |-> "T", description |-> "D", hasTechnologies |-> TRUE,
     technologies |-> <<"a">>, demoUrl |-> "", githubUrl |-> "",
     category |-> "web", featured |-> "false"]

\* The payloads of the model: a valid one, and one for each way the handlers
\* and the schema tell payloads apart.
ProjectBodies ==
    {BaseBody,
     [BaseBody EXCEPT !.featured = "true", !.category = "ai"],
     [BaseBody EXCEPT !.category = "Game"]}
    \cup {[BaseBody EXCEPT !.title = ""],
          [BaseBody EXCEPT !.description = ""],
          [BaseBody EXCEPT !.hasTechnologies = FALSE],
          [BaseBody EXCEPT !.technologies = <<"a", ",", " ", "b">>],
          [BaseBody EXCEPT !.technologies = <<"a", ",">>]}

FileKinds == {NoFile, "png"}

ContactBodies ==
    [name : {"N", ""}, email : {"E", ""}, message : {"M"}]

CategoryParams == {undefined, "", "all", "web", "ai", "Game"}
FeaturedParams == {undefined, "true", "false"}

\* ------------------------------------------------------- server: init
IdleContactRequest ==
    [pc |-> "idle", docId |-> 0, status |-> 0, body |-> ""]

IdleAnalytics ==
    [pc |-> 0, totalProjects |-> 0, totalContacts |-> 0, unreadContacts |-> 0,
     featuredProjects |-> 0, projectsByCategory |-> {}]

ServerInit ==
    /\ dbProjects = {}
    /\ dbContacts = {}
    /\ files = {}
    /\ projectOid = 1
    /\ contactOid = 1
    /\ fileSeq = 1
    /\ now = 1
    /\ storeUp = TRUE
    /\ mailUp = TRUE
    /\ creq = [r \in 1..MaxReq |-> IdleContactRequest]
    /\ an = IdleAnalytics
    /\ anDirty = FALSE
    /\ resp = [op |-> "none", status |-> 0]

\* ------------------------------------------------ server: file upload
\* fileFilter: only jpeg/jpg/png/gif pass.
AllowedType(kind) == kind \in {"jpeg", "jpg", "png", "gif"}

\* storage.filename: Date.now() + '-' + random + extension; the counter
\* stands for a name no earlier upload received.
UploadPath(n) == Cwd \o UploadDir \o <<n>>

\* `/uploads/projects/${req.file.filename}`
ImageUrl(n) == <<"uploads">> \o <<"projects">> \o <<n>>

\* upload.single('image'), which runs before the handler: the files on disk
\* afterwards.
Uploaded(file) ==
    IF file = NoFile THEN files ELSE files \cup {UploadPath(fileSeq)}

UploadOk(file) == file = NoFile \/ (AllowedType(file) /\ fileSeq <= MaxFiles)

\* The error-handling middleware: a rejected upload never reaches the handler.
UploadRejected(op, file) ==
    /\ file # NoFile /\ ~AllowedType(file)
    /\ resp' = [op |-> op, status |-> 500, error |-> "Something went wrong!"]
    /\ UNCHANGED <<dbProjects, dbContacts, files, projectOid, contactOid, fileSeq, now, storeUp,
                   mailUp, creq, an>>

\* ---------------------------------------------- server: project routes
BuildQueryNoGuard(category, featured) ==
    [hasCategory |-> category # undefined /\ category # "all",
     category |-> category,
     hasFeatured |-> featured = "true"]

\* let query = {}; if (category && category !== 'all') ...; if (featured === 'true') ...
BuildQuery(category, featured) ==
    [hasCategory |-> category # undefined /\ category # "" /\ category # "all",
     category |-> category,
     hasFeatured |-> featured = "true"]

\* Project.find(query)
Find(query) ==
    {p \in dbProjects :
        /\ query.hasCategory => p.category = query.category
        /\ query.hasFeatured => p.featured = TRUE}

Arrangements(S) ==
    {s \in [1..Cardinality(S) -> S] : \A i, j \in DOMAIN s : i # j => s[i] # s[j]}

\* .sort({ createdAt: -1 }): the order of equal keys is the store's choice.
NewestFirst(S) ==
    {s \in Arrangements(S) :
        \A i, j \in DOMAIN s : i < j => s[i].createdAt >= s[j].createdAt}

\* app.get('/api/projects')
GetProjects(category, featured) ==
    /\ IF storeUp
       THEN \E list \in NewestFirst(Find(BuildQuery(category, featured))) :
              resp' = [op |-> "listProjects", status |-> 200,
                       category |-> category, featured |-> featured,
                       body |-> list]
       ELSE resp' = [op |-> "listProjects", status |-> 500,
                     category |-> category, featured |-> featured]
    /\ UNCHANGED <<dbProjects, dbContacts, files, projectOid, contactOid, fileSeq, now, storeUp,
                   mailUp, creq, an>>

\* app.get('/api/projects/:id')
GetProject(id) ==
    /\ resp' = IF ~storeUp THEN [op |-> "getProject", id |-> id, status |-> 500]
               ELSE IF FindById(dbProjects, id) = {}
               THEN [op |-> "getProject", id |-> id, status |-> 404]
               ELSE [op |-> "getProject", id |-> id, status |-> 200,
                     body |-> CHOOSE d \in dbProjects : d.id = id]
    /\ UNCHANGED <<dbProjects, dbContacts, files, projectOid, contactOid, fileSeq, now, storeUp,
                   mailUp, creq, an>>

\* The fields both write handlers build from req.body.
ProjectData(body) ==
    [title |-> body.title,
     description |-> body.description,
     technologies |-> ParseTechnologies(body.technologies),
     demoUrl |-> body.demoUrl,
     githubUrl |-> body.githubUrl,
     category |-> body.category,
     featured |-> (body.featured = "true")]

\* new Project(projectData): the schema defaults fill in the rest.
NewProject(body, file, t) ==
    [id |-> projectOid, createdAt |-> t,
     imageUrl |-> IF file = NoFile THEN <<>> ELSE ImageUrl(fileSeq)]
        @@ ProjectData(body)

\* app.post('/api/projects', upload.single('image'), ...)
PostProject(body, file, t) ==
    /\ UploadOk(file)
    /\ files' = Uploaded(file)
    /\ fileSeq' = IF file = NoFile THEN fileSeq ELSE fileSeq + 1
    /\ now' = t
    /\ IF /\ body.hasTechnologies
          /\ ValidateProject(NewProject(body, file, t))
          /\ storeUp
       THEN /\ projectOid <= MaxOid
            /\ dbProjects' = dbProjects \cup {NewProject(body, file, t)}
            /\ projectOid' = projectOid + 1
            /\ resp' = [op |-> "postProject", status |-> 201, body |-> NewProject(body, file, t)]
       ELSE /\ resp' = [op |-> "postProject", status |-> 400]
            /\ UNCHANGED <<dbProjects, projectOid>>
    /\ UNCHANGED <<dbContacts, contactOid, storeUp, mailUp, creq, an>>

\* findByIdAndUpdate(id, updateData, { new: true }): the fields of updateData
\* replace the document's; id and createdAt stay.
Updated(d, body, file) ==
    (IF file = NoFile THEN [imageUrl |-> d.imageUrl]
                      ELSE [imageUrl |-> ImageUrl(fileSeq)])
        @@ ProjectData(body) @@ d

\* app.put('/api/projects/:id', upload.single('image'), ...)
PutProject(id, body, file) ==
    /\ UploadOk(file)
    /\ files' = Uploaded(file)
    /\ fileSeq' = IF file = NoFile THEN fileSeq ELSE fileSeq + 1
    /\ IF ~body.hasTechnologies \/ ~storeUp
       THEN /\ resp' = [op |-> "putProject", id |-> id, status |-> 400]
            /\ UNCHANGED dbProjects
       ELSE IF FindById(dbProjects, id) = {}
       THEN /\ resp' = [op |-> "putProject", id |-> id, status |-> 404]
            /\ UNCHANGED dbProjects
       ELSE LET d == CHOOSE x \in dbProjects : x.id = id
            IN  /\ dbProjects' = (dbProjects \ {d}) \cup {Updated(d, body, file)}
                /\ resp' = [op |-> "putProject", id |-> id, status |-> 200,
                            body |-> Updated(d, body, file)]
    /\ UNCHANGED <<dbContacts, projectOid, contactOid, now, storeUp, mailUp,
                   creq, an>>

\* Where upload.single('image') put the file that imageUrl names.
StoredUpload(imageUrl) == Cwd \o imageUrl

\* path.join(__dirname, 'public', project.imageUrl)
ImagePath(imageUrl) == DirName \o <<"public">> \o imageUrl

\* project.imageUrl && project.imageUrl.startsWith('/uploads/')
IsUploadUrl(imageUrl) == imageUrl # <<>> /\ Head(imageUrl) = "uploads"

\* app.delete('/api/projects/:id')
DeleteProject(id) ==
    /\ IF ~storeUp
       THEN /\ resp' = [op |-> "deleteProject", id |-> id, status |-> 500]
            /\ UNCHANGED <<dbProjects, files>>
       ELSE IF FindById(dbProjects, id) = {}
       THEN /\ resp' = [op |-> "deleteProject", id |-> id, status |-> 404]
            /\ UNCHANGED <<dbProjects, files>>
       ELSE LET d == CHOOSE x \in dbProjects : x.id = id
            IN  /\ dbProjects' = dbProjects \ {d}
                /\ files' = IF IsUploadUrl(d.imageUrl)
                               /\ ImagePath(d.imageUrl) \in files
                            THEN files \ {ImagePath(d.imageUrl)}
                            ELSE files
                /\ resp' = [op |-> "deleteProject", id |-> id, status |-> 200,
                            deleted |-> d]
    /\ UNCHANGED <<dbContacts, projectOid, contactOid, fileSeq, now, storeUp,
                   mailUp, creq, an>>

\* ---------------------------------------------- server: contact routes
\* new Contact({ name, email, message }): the schema defaults fill in the rest.
NewContact(body, t) ==
    [id |-> contactOid, name |-> body.name, email |-> body.email,
     message |-> body.message, createdAt |-> t, read |-> FALSE]

\* The one catch block of app.post('/api/contact').
ContactCatch == [status |-> 500, body |-> "Failed to send message"]

\* app.post('/api/contact'), up to and including `await contact.save()`.
ContactSave(r, body, t) ==
    /\ creq[r].pc # "mail"
    /\ now' = t
    /\ IF ValidateContact(NewContact(body, t)) /\ storeUp
       THEN /\ contactOid <= MaxContacts
            /\ dbContacts' = dbContacts \cup {NewContact(body, t)}
            /\ contactOid' = contactOid + 1
            /\ creq' = [creq EXCEPT ![r] =
                   [pc |-> "mail", docId |-> contactOid, status |-> 0, body |-> ""]]
       ELSE /\ creq' = [creq EXCEPT ![r] =
                   [pc |-> "done", docId |-> 0] @@ ContactCatch]
            /\ UNCHANGED <<dbContacts, contactOid>>
    /\ UNCHANGED <<dbProjects, files, projectOid, fileSeq, storeUp, mailUp, an,
                   resp>>

ContactsAfterRollback(r) == {c \in dbContacts : c.id # creq[r].docId}

\* The Contact collection after `await transporter.sendMail(...)` rejects:
\* the catch block only logs and responds.
ContactsAfterMailFailure(r) == dbContacts

\* app.post('/api/contact'), from `await transporter.sendMail(...)` on.
ContactMail(r) ==
    /\ creq[r].pc = "mail"
    /\ IF mailUp
       THEN /\ creq' = [creq EXCEPT ![r] =
                   [pc |-> "done", docId |-> creq[r].docId, status |-> 201,
                    body |-> "Message sent successfully"]]
            /\ UNCHANGED dbContacts
       ELSE /\ creq' = [creq EXCEPT ![r] =
                   [pc |-> "done", docId |-> creq[r].docId] @@ ContactCatch]
            /\ dbContacts' = ContactsAfterMailFailure(r)
    /\ UNCHANGED <<dbProjects, files, projectOid, contactOid, fileSeq, now, storeUp, mailUp, an,
                   resp>>

\* app.get('/api/contacts')
GetContacts ==
    /\ IF storeUp
       THEN \E list \in NewestFirst(dbContacts) :
              resp' = [op |-> "listContacts", status |-> 200, body |-> list]
       ELSE resp' = [op |-> "listContacts", status |-> 500]
    /\ UNCHANGED <<dbProjects, dbContacts, files, projectOid, contactOid, fileSeq, now, storeUp,
                   mailUp, creq, an>>

\* app.put('/api/contacts/:id/read')
MarkContactRead(id) ==
    /\ IF ~storeUp
       THEN /\ resp' = [op |-> "markRead", id |-> id, status |-> 500]
            /\ UNCHANGED dbContacts
       ELSE IF FindById(dbContacts, id) = {}
       THEN /\ resp' = [op |-> "markRead", id |-> id, status |-> 404]
            /\ UNCHANGED dbContacts
       ELSE LET d == CHOOSE x \in dbContacts : x.id = id
            IN  /\ dbContacts' = (dbContacts \ {d}) \cup {[d EXCEPT !.read = TRUE]}
                /\ resp' = [op |-> "markRead", id |-> id, status |-> 200,
                            body |-> [d EXCEPT !.read = TRUE]]
    /\ UNCHANGED <<dbProjects, files, projectOid, contactOid, fileSeq, now, storeUp, mailUp, creq,
                   an>>

DeleteContactAlways(id) ==
    /\ dbContacts' = {c \in dbContacts : c.id # id}
    /\ resp' = [op |-> "deleteContact", id |-> id, status |-> 200]
    /\ UNCHANGED <<dbProjects, files, projectOid, contactOid, fileSeq, now, storeUp, mailUp, creq,
                   an>>

\* app.delete('/api/contacts/:id')
DeleteContact(id) ==
    /\ IF ~storeUp
       THEN /\ resp' = [op |-> "deleteContact", id |-> id, status |-> 500]
            /\ UNCHANGED dbContacts
       ELSE IF FindById(dbContacts, id) = {}
       THEN /\ resp' = [op |-> "deleteContact", id |-> id, status |-> 404]
            /\ UNCHANGED dbContacts
       ELSE /\ dbContacts' = {c \in dbContacts : c.id # id}
            /\ resp' = [op |-> "deleteContact", id |-> id, status |-> 200]
    /\ UNCHANGED <<dbProjects, files, projectOid, contactOid, fileSeq, now, storeUp, mailUp, creq,
                   an>>

\* ------------------------------------------------- server: analytics
RecentLimit == 5

CountAll(coll) == Cardinality(coll)

\* Contact.countDocuments({ read: false })
CountUnread == Cardinality({c \in dbContacts : ~c.read})

CountFeaturedAsAll == Cardinality(dbProjects)

\* Project.countDocuments({ featured: true })
CountFeatured == Cardinality({p \in dbProjects : p.featured})

\* Project.aggregate([{ $group: { _id: '$category', count: { $sum: 1 } } }])
GroupByCategory ==
    {[_id |-> c, count |-> Cardinality({p \in dbProjects : p.category = c})] :
        c \in {p.category : p \in dbProjects}}

\* .select('name email createdAt read')
Summary(c) ==
    [id |-> c.id, name |-> c.name, email |-> c.email,
     createdAt |-> c.createdAt, read |-> c.read]

\* Contact.find().sort({ createdAt: -1 }).limit(5).select(...)
RecentContacts ==
    {[i \in 1..(IF Len(s) < RecentLimit THEN Len(s) ELSE RecentLimit) |->
         Summary(s[i])] : s \in NewestFirst(dbContacts)}

AnUnchanged ==
    UNCHANGED <<dbProjects, dbContacts, files, projectOid, contactOid, fileSeq, now, storeUp,
                mailUp, creq>>

\* Any of the six awaits rejecting: the catch block answers 500.
AnFail ==
    /\ ~storeUp
    /\ an' = IdleAnalytics
    /\ resp' = [op |-> "analytics", status |-> 500]
    /\ AnUnchanged

\* const totalProjects = await Project.countDocuments();
AnTotalProjects ==
    /\ storeUp /\ an.pc = 0
    /\ an' = [IdleAnalytics EXCEPT !.pc = 1,
                                   !.totalProjects = CountAll(dbProjects)]
    /\ UNCHANGED resp
    /\ AnUnchanged

\* const totalContacts = await Contact.countDocuments();
AnTotalContacts ==
    /\ storeUp /\ an.pc = 1
    /\ an' = [an EXCEPT !.pc = 2, !.totalContacts = CountAll(dbContacts)]
    /\ UNCHANGED resp
    /\ AnUnchanged

\* const unreadContacts = await Contact.countDocuments({ read: false });
AnUnreadContacts ==
    /\ storeUp /\ an.pc = 2
    /\ an' = [an EXCEPT !.pc = 3, !.unreadContacts = CountUnread]
    /\ UNCHANGED resp
    /\ AnUnchanged

\* const featuredProjects = await Project.countDocuments({ featured: true });
AnFeaturedProjects ==
    /\ storeUp /\ an.pc = 3
    /\ an' = [an EXCEPT !.pc = 4, !.featuredProjects = CountFeatured]
    /\ UNCHANGED resp
    /\ AnUnchanged

\* const projectsByCategory = await Project.aggregate([...]);
AnProjectsByCategory ==
    /\ storeUp /\ an.pc = 4
    /\ an' = [an EXCEPT !.pc = 5, !.projectsByCategory = GroupByCategory]
    /\ UNCHANGED resp
    /\ AnUnchanged

\* const recentContacts = await Contact.find()...; res.json({...})
AnRecentContacts ==
    /\ storeUp /\ an.pc = 5
    /\ \E recent \in RecentContacts :
         resp' = [op |-> "analytics", status |-> 200,
                  totalProjects |-> an.totalProjects,
                  totalContacts |-> an.totalContacts,
                  unreadContacts |-> an.unreadContacts,
                  featuredProjects |-> an.featuredProjects,
                  projectsByCategory |-> an.projectsByCategory,
                  recentContacts |-> recent]
    /\ an' = IdleAnalytics
    /\ AnUnchanged

\* ---------------------------------------------------- the environment
StoreToggle ==
    /\ storeUp' = ~storeUp
    /\ UNCHANGED <<dbProjects, dbContacts, files, projectOid, contactOid, fileSeq, now, mailUp,
                   creq, an, resp>>

MailToggle ==
    /\ mailUp' = ~mailUp
    /\ UNCHANGED <<dbProjects, dbContacts, files, projectOid, contactOid, fileSeq, now, storeUp,
                   creq, an, resp>>

\* ------------------------------------------------------ client: records
\* A category is kept as its words and blanks, since createProjectCard puts
\* it into a className, which the browser splits at whitespace.
all == <<"all">>

\* The default list of loadProjects (its one record; demoUrl is commented out).
Seed ==
    << [id |-> 1,
        title |-> "Pacman Game",
        description |-> "A single-player Pac-Man style arcade game",
        technologies |-> << <<"Java">>, <<"Java">>, <<"Java", " ", "Swing">>,
                            <<"Version control / hosting: Git + GitHub">> >>,
        githubUrl |-> "https://github.com/VijayKhokhar111/PacMan.git",
        imageUrl |-> "https://github.com/VijayKhokhar111/PacMan/blob/main/PacMan/Screenshot.png",
        category |-> <<"Game">>] >>

Placeholder == "https://via.placeholder.com/400x250"

\* The values of the #project-form inputs at submit.
BaseForm ==
    [title |-> "X", description |-> "d", technologies |-> <<"a", ",", " ", "b">>,
     demoUrl |-> "", githubUrl |-> "", imageUrl |-> "", category |-> <<"web">>]

Forms ==
    {[BaseForm EXCEPT !.category = c] :
        c \in {<<"web">>, <<"Web">>, <<"Game">>, <<"web", " ", "app">>, <<>>}}
    \cup {[BaseForm EXCEPT !.imageUrl = "x.png", !.demoUrl = "https://demo",
                          !.technologies = <<>>]}

\* The data-filter values of the .filter-btn buttons.
FilterValues == {all, <<"web">>, <<"mobile">>, <<"Game">>}

\* ------------------------------------------------- client: JSON text
\* The order in which JSON.stringify meets the keys of a record.
KeyOrder ==
    <<"id", "title", "description", "technologies", "demoUrl", "githubUrl",
      "imageUrl", "category">>

StringKeys == {"title", "description", "demoUrl", "githubUrl", "imageUrl"}

\* One JSON value: a number, a string or an array of strings.
Encode(k, v) ==
    IF k = "id" THEN <<"number", v>>
    ELSE IF k = "technologies"
    THEN <<"array", [i \in 1..Len(v) |-> <<"string", v[i]>>]>>
    ELSE <<"string", v>>

Decode(j) ==
    IF j[1] = "array" THEN [i \in 1..Len(j[2]) |-> j[2][i][2]] ELSE j[2]

\* A member is written unless its value is undefined.
Written(rec, k) ==
    /\ k \in DOMAIN rec
    /\ k \in StringKeys => rec[k] # undefined

StringifyRecord(rec) ==
    LET keys == SelectSeq(KeyOrder, LAMBDA k : Written(rec, k))
    IN  [i \in 1..Len(keys) |-> <<keys[i], Encode(keys[i], rec[keys[i]])>>]

JsonStringifyDropLast(list) ==
    [i \in 1..(Len(list) - 1) |-> StringifyRecord(list[i])]

\* JSON.stringify(this.projects)
JsonStringify(list) == [i \in 1..Len(list) |-> StringifyRecord(list[i])]

ParseRecord(members) ==
    [k \in {members[i][1] : i \in 1..Len(members)} |->
        Decode((CHOOSE m \in {members[i] : i \in 1..Len(members)} : m[1] = k)[2])]

\* JSON.parse(saved)
JsonParse(text) == [i \in 1..Len(text) |-> ParseRecord(text[i])]

\* localStorage.getItem('portfolio-projects'): null when the key is absent.
NoItem == [present |-> FALSE, text |-> <<>>]

\* ------------------------------------------------------ client: the DOM
\* The class tokens of `project-card ${project.category}`.
ClassList(category) ==
    {"project-card"} \cup {category[i] : i \in {j \in 1..Len(category) :
                                                  category[j] \notin Whitespace}}

\* createProjectCard: the card's classes, its display style and the id bound
\* to its delete button.
CreateProjectCard(project) ==
    [classList |-> ClassList(project.category), display |-> "",
     deleteId |-> project.id]

RenderProjectsFiltered(list) ==
    [i \in 1..Len(list) |->
        [CreateProjectCard(list[i]) EXCEPT
            !.display = IF activeFilter = all \/ list[i].category = activeFilter
                        THEN "" ELSE "none"]]

\* renderProjects: projectsGrid.innerHTML = ''; one card per record, in order.
RenderProjects(list) == [i \in 1..Len(list) |-> CreateProjectCard(list[i])]

\* card.classList.contains(category): a token match; an argument that is empty
\* or holds whitespace is no token and matches nothing.
Contains(classList, category) ==
    /\ Len(category) = 1
    /\ category[1] \notin Whitespace
    /\ category[1] \in classList

\* filterProjects(category), on one card.
FilterCard(card, category) ==
    IF category = all \/ Contains(card.classList, category)
    THEN [card EXCEPT !.display = "block",
                      !.classList = card.classList \cup {"fade-in-up"}]
    ELSE [card EXCEPT !.display = "none"]

Shown(card) == card.display # "none"

\* ------------------------------------------------ client: operations
\* loadProjects
LoadProjects(item) == IF item.present THEN JsonParse(item.text) ELSE Seed

\* saveProjects: the item stored under 'portfolio-projects'.
SaveProjects(list) == [present |-> TRUE, text |-> JsonStringify(list)]

ClientInit ==
    /\ localStorage = NoItem
    /\ projects = LoadProjects(NoItem)
    /\ activeFilter = all
    /\ grid = RenderProjects(LoadProjects(NoItem))
    /\ clock = ClockStart

\* formData of addProject.
FormData(form, t) ==
    [title |-> form.title,
     description |-> form.description,
     technologies |-> ParseTechnologies(form.technologies),
     demoUrl |-> form.demoUrl,
     githubUrl |-> form.githubUrl,
     imageUrl |-> IF form.imageUrl # "" THEN form.imageUrl ELSE Placeholder,
     category |-> form.category,
     id |-> t]

\* addProject: push, saveProjects, renderProjects.
AddProject(form, t) ==
    /\ Len(projects) < MaxList
    /\ clock' = t
    /\ projects' = Append(projects, FormData(form, t))
    /\ localStorage' = SaveProjects(projects')
    /\ grid' = RenderProjects(projects')
    /\ UNCHANGED activeFilter

DeleteWithoutConfirm(projectId, confirmed) ==
    /\ projects' = SelectSeq(projects, LAMBDA p : p.id # projectId)
    /\ localStorage' = SaveProjects(projects')
    /\ grid' = RenderProjects(projects')
    /\ UNCHANGED <<activeFilter, clock>>

\* deleteProject(projectId), with the answer given to confirm().
DeleteClientProject(projectId, confirmed) ==
    IF confirmed
    THEN /\ projects' = SelectSeq(projects, LAMBDA p : p.id # projectId)
         /\ localStorage' = SaveProjects(projects')
         /\ grid' = RenderProjects(projects')
         /\ UNCHANGED <<activeFilter, clock>>
    ELSE UNCHANGED <<projects, localStorage, grid, activeFilter, clock>>

\* A click on a .filter-btn: the button becomes the active one, then
\* filterProjects(its data-filter).
FilterProjects(category) ==
    /\ activeFilter' = category
    /\ grid' = [i \in 1..Len(grid) |-> FilterCard(grid[i], category)]
    /\ UNCHANGED <<projects, localStorage, clock>>

\* A page load: new PortfolioManager() reads the stored list and renders it.
Load ==
    /\ projects' = LoadProjects(localStorage)
    /\ grid' = RenderProjects(projects')
    /\ activeFilter' = all
    /\ UNCHANGED <<localStorage, clock>>

\* ----------------------------------------- technologies: both parsers
Chars == {"a", "b", ",", " "}

TechStrings == UNION {[1..n -> Chars] : n \in 0..MaxLen}

TechInit ==
    /\ techInput \in TechStrings
    /\ techStored = [by |-> "none", accepted |-> FALSE, technologies |-> <<>>]

\* POST /api/projects with this technologies string and otherwise valid fields.
TechCreate ==
    /\ techStored.by = "none"
    /\ LET d == ProjectData([BaseBody EXCEPT !.technologies = techInput])
       IN  techStored' =
             IF ValidateProject(d)
             THEN [by |-> "server", accepted |-> TRUE,
                   technologies |-> d.technologies]
             ELSE [by |-> "server", accepted |-> FALSE, technologies |-> <<>>]
    /\ UNCHANGED techInput

\* Add with this technologies string in the form.
TechAdd ==
    /\ techStored.by = "none"
    /\ techStored' =
         [by |-> "client", accepted |-> TRUE,
          technologies |->
             FormData([BaseForm EXCEPT !.technologies = techInput], 0).technologies]
    /\ UNCHANGED techInput

\* --------------------------------------------------- specifications
TechIdle ==
    /\ techInput = <<>>
    /\ techStored = [by |-> "none", accepted |-> FALSE, technologies |-> <<>>]

\* anDirty follows the step: it is cleared when the analytics handler runs
\* its first query and set by any step that changes a collection.
Observe ==
    anDirty' = IF an.pc = 0 /\ an'.pc = 1 THEN FALSE
               ELSE anDirty \/ dbProjects' # dbProjects \/ dbContacts' # dbContacts

ServerFrame == Observe /\ UNCHANGED <<clientVars, techVars>>

ClientFrame == UNCHANGED <<serverVars, techVars>>

TechFrame == UNCHANGED <<serverVars, clientVars>>

Init == ServerInit /\ ClientInit /\ TechIdle

\* Ids a request may name: those the store has issued and one it has not.
RequestIds == 1..(MaxOid + 1)

ContactIds == 1..(MaxContacts + 1)

ProjectNext ==
    \/ \E c \in CategoryParams, f \in FeaturedParams :
          GetProjects(c, f) /\ ServerFrame
    \/ \E id \in RequestIds : GetProject(id) /\ ServerFrame
    \/ \E b \in ProjectBodies, f \in FileKinds, t \in now..MaxClock :
          PostProject(b, f, t) /\ ServerFrame
    \/ \E id \in RequestIds, b \in ProjectBodies, f \in FileKinds :
          PutProject(id, b, f) /\ ServerFrame
    \/ \E op \in {"postProject", "putProject"} :
          UploadRejected(op, "txt") /\ ServerFrame
    \/ \E id \in RequestIds : DeleteProject(id) /\ ServerFrame
    \/ StoreToggle /\ ServerFrame

ProjectSpec == Init /\ [][ProjectNext]_vars

ContactNext ==
    \/ \E r \in 1..MaxReq, b \in ContactBodies, t \in now..MaxClock :
          ContactSave(r, b, t) /\ ServerFrame
    \/ \E r \in 1..MaxReq : ContactMail(r) /\ ServerFrame
    \/ GetContacts /\ ServerFrame
    \/ \E id \in ContactIds : MarkContactRead(id) /\ ServerFrame
    \/ \E id \in ContactIds : DeleteContact(id) /\ ServerFrame
    \/ StoreToggle /\ ServerFrame
    \/ MailToggle /\ ServerFrame

ContactSpec == Init /\ [][ContactNext]_vars

\* Every route together, with the payloads that the counts tell apart.
ServerBodies ==
    {BaseBody, [BaseBody EXCEPT !.featured = "true", !.category = "ai"]}

ServerContactBodies == {[name |-> "N", email |-> "E", message |-> "M"]}

ServerNext ==
    \/ \E b \in ServerBodies : PostProject(b, NoFile, now) /\ ServerFrame
    \/ \E id \in RequestIds, b \in ServerBodies :
          PutProject(id, b, NoFile) /\ ServerFrame
    \/ \E id \in RequestIds : DeleteProject(id) /\ ServerFrame
    \/ \E b \in ServerContactBodies : ContactSave(1, b, now) /\ ServerFrame
    \/ ContactMail(1) /\ ServerFrame
    \/ \E id \in ContactIds : MarkContactRead(id) /\ ServerFrame
    \/ \E id \in ContactIds : DeleteContact(id) /\ ServerFrame
    \/ AnTotalProjects /\ ServerFrame
    \/ AnTotalContacts /\ ServerFrame
    \/ AnUnreadContacts /\ ServerFrame
    \/ AnFeaturedProjects /\ ServerFrame
    \/ AnProjectsByCategory /\ ServerFrame
    \/ AnRecentContacts /\ ServerFrame
    \/ AnFail /\ ServerFrame
    \/ StoreToggle /\ ServerFrame

ServerSpec == Init /\ [][ServerNext]_vars

ClientNext ==
    \/ \E form \in Forms, t \in clock..MaxTime :
          AddProject(form, t) /\ ClientFrame
    \/ \E i \in 1..Len(grid), confirmed \in BOOLEAN :
          DeleteClientProject(grid[i].deleteId, confirmed) /\ ClientFrame
    \/ \E c \in FilterValues : FilterProjects(c) /\ ClientFrame
    \/ Load /\ ClientFrame

ClientSpec == Init /\ [][ClientNext]_vars

TechStart == ServerInit /\ ClientInit /\ TechInit

TechNext ==
    \/ TechCreate /\ TechFrame
    \/ TechAdd /\ TechFrame

TechSpec == TechStart /\ [][TechNext]_vars

\* =================================================================
\* Claims
\* =================================================================
Range(s) == {s[i] : i \in 1..Len(s)}

\* ---- C1 ----
\* C1: when POST /api/contact has saved the record and the mail send then
\* fails, the failing step leaves the Contact collection as it was (nothing
\* is rolled back); a saved record leaves the collection only through a
\* successful DELETE /api/contacts/:id of its id; and a successful
\* GET /api/contacts lists every record of the collection.
ContactSurvivesMailFailure ==
    [][/\ \A r \in 1..MaxReq :
            (creq[r].pc = "mail" /\ creq'[r].pc = "done" /\ creq'[r].status # 201)
                => /\ dbContacts' = dbContacts
                   /\ creq[r].docId \in Ids(dbContacts)
                        => creq[r].docId \in Ids(dbContacts')
       /\ \A c \in dbContacts :
            c.id \notin Ids(dbContacts')
                => resp' = [op |-> "deleteContact", id |-> c.id, status |-> 200]
       /\ (resp'.op = "listContacts" /\ resp'.status = 200 /\ GetContacts)
                => Range(resp'.body) = dbContacts']_vars

\* A request whose record was saved and whose mail failed, answered 500, and
\* a later listing that shows the record.
MailFailedRecordListed ==
    \E r \in 1..MaxReq :
        /\ creq[r].pc = "done" /\ creq[r].docId # 0 /\ creq[r].status = 500
        /\ ~mailUp
        /\ resp.op = "listContacts" /\ resp.status = 200
        /\ creq[r].docId \in {d.id : d \in Range(resp.body)}
        /\ creq[r].docId \in Ids(dbContacts)

\* ---- C2 ----
\* C2: the response of a POST /api/contact whose record was saved and whose
\* mail failed differs from the response of one whose record was not saved.
SavedButNotNotifiedIsDistinguished ==
    \A r1, r2 \in 1..MaxReq :
        (/\ creq[r1].pc = "done" /\ creq[r1].docId # 0 /\ creq[r1].status # 201
         /\ creq[r2].pc = "done" /\ creq[r2].docId = 0)
            => <<creq[r1].status, creq[r1].body>> # <<creq[r2].status, creq[r2].body>>

\* ---- C3 ----
RECURSIVE SumCounts(_)
SumCounts(groups) ==
    IF groups = {} THEN 0
    ELSE LET g == CHOOSE x \in groups : TRUE
         IN  g.count + SumCounts(groups \ {g})

\* The snapshot r agrees with the collections as they are.
SnapshotConsistent(r, ps, cs) ==
    /\ r.totalProjects = Cardinality(ps)
    /\ r.featuredProjects = Cardinality({p \in ps : p.featured})
    /\ r.unreadContacts = Cardinality({c \in cs : ~c.read})
    /\ SumCounts(r.projectsByCategory) = r.totalProjects

\* The step in which GET /api/analytics answers 200.
AnalyticsAnswers == an.pc = 5 /\ an'.pc = 0 /\ resp'.op = "analytics" /\ resp'.status = 200

\* C3 as stated: every snapshot GET /api/analytics returns is consistent with
\* the collections, whatever requests ran between the handler's six queries.
AnalyticsAlwaysConsistent ==
    [][AnalyticsAnswers => SnapshotConsistent(resp', dbProjects', dbContacts')]_vars

\* C3 as amended: the snapshot is consistent whenever no request changed the
\* projects or contacts collection between the handler's first query and its
\* response.
AnalyticsConsistentWhenUndisturbed ==
    [][(AnalyticsAnswers /\ ~anDirty')
          => SnapshotConsistent(resp', dbProjects', dbContacts')]_vars

\* An undisturbed snapshot that counts two projects, one featured, and one
\* unread contact.
UndisturbedSnapshot ==
    /\ resp.op = "analytics" /\ resp.status = 200
    /\ an.pc = 0 /\ ~anDirty
    /\ resp.totalProjects = 2 /\ resp.featuredProjects = 1
    /\ resp.unreadContacts = 1
    /\ SnapshotConsistent(resp, dbProjects, dbContacts)

\* ---- C4 ----
\* The step answers a delete request (op) for id.
IsDelete(op, id) == resp'.op = op /\ resp'.id = id

Wanted(c, f, noFilter) ==
    {p \in dbProjects :
        /\ c \notin noFilter => p.category = c
        /\ f = "true" => p.featured}

\* body holds exactly the records of want, newest first.
ListIs(body, want) ==
    /\ Range(body) = want
    /\ Len(body) = Cardinality(want)
    /\ \A i, j \in 1..Len(body) : i < j => body[i].createdAt >= body[j].createdAt

\* The step answers GET /api/projects?category=c&featured=f with 200.
IsListing(c, f) ==
    /\ resp'.op = "listProjects" /\ resp'.status = 200
    /\ resp'.category = c /\ resp'.featured = f

\* C5 as stated: a listing holds exactly the projects whose category equals
\* the parameter, all of them when the parameter is "all" or absent, only the
\* featured ones with featured=true, newest first.
ListFiltersByCategory ==
    [][\A c \in CategoryParams, f \in FeaturedParams :
          (IsListing(c, f) /\ GetProjects(c, f))
             => ListIs(resp'.body, Wanted(c, f, {undefined, "all"}))]_vars

\* C5 as amended: the same, with the empty category parameter (?category=)
\* also meaning no filter.
ListFiltersByNonEmptyCategory ==
    [][\A c \in CategoryParams, f \in FeaturedParams :
          (IsListing(c, f) /\ GetProjects(c, f))
             => ListIs(resp'.body, Wanted(c, f, {undefined, "", "all"}))]_vars

\* A listing for featured=true and category "ai" that kept one of two stored
\* projects.
FilteredListing ==
    /\ resp.op = "listProjects" /\ resp.status = 200
    /\ resp.category = "ai" /\ resp.featured = "true"
    /\ Len(resp.body) = 1 /\ Range(resp.body) \subseteq dbProjects
    /\ Cardinality(dbProjects) = 2

\* ---- C6 ----
\* The position of the k-th comma of s; 0 before the first, Len(s)+1 after
\* the last.
CommaAt(s, k) ==
    IF k = 0 THEN 0
    ELSE IF k > Cardinality({i \in 1..Len(s) : s[i] = ","}) THEN Len(s) + 1
    ELSE CHOOSE i \in 1..Len(s) :
            s[i] = "," /\ Cardinality({j \in 1..i : s[j] = ","}) = k

\* The text between the (k-1)-th and the k-th comma.
Piece(s, k) == SubSeq(s, CommaAt(s, k-1) + 1, CommaAt(s, k) - 1)

\* t is p without its leading and trailing whitespace.
IsTrimOf(t, p) ==
    \E a, b \in 0..Len(p) :
        /\ a + b <= Len(p)
        /\ t = SubSeq(p, a + 1, Len(p) - b)
        /\ \A i \in 1..a : p[i] \in Whitespace
        /\ \A i \in (Len(p) - b + 1)..Len(p) : p[i] \in Whitespace
        /\ t # <<>> => t[1] \notin Whitespace /\ t[Len(t)] \notin Whitespace

\* C6: the technologies a create or Add stores are the pieces of the input
\* string between its commas, each trimmed, in order; there is at least one.
TechnologiesAreTrimmedPieces ==
    (techStored.by # "none" /\ techStored.accepted)
        => /\ Len(techStored.technologies)
                = Cardinality({i \in 1..Len(techInput) : techInput[i] = ","}) + 1
           /\ Len(techStored.technologies) >= 1
           /\ \A k \in 1..Len(techStored.technologies) :
                 IsTrimOf(techStored.technologies[k], Piece(techInput, k))

\* "a, b" stored by POST /api/projects as the two tokens a and b.
TwoTokensStored ==
    /\ techInput = <<"a", ",", " ", "b">>
    /\ techStored.by = "server" /\ techStored.accepted
    /\ techStored.technologies = << <<"a">>, <<"b">> >>

\* ---- C7 ----
\* C7: every stored project has a category of the enumeration and a title and
\* a description.
StoredProjectsFitSchema ==
    \A p \in dbProjects :
        /\ p.category \in CategoryEnum
        /\ Required(p.title)
        /\ Required(p.description)

\* ---- C8 ----
\* C8: after a successful DELETE /api/projects/:id neither the record nor the
\* file that the upload step stored for its imageUrl remains.
DeleteRemovesUploadedImage ==
    [][\A id \in RequestIds :
          (/\ IsDelete("deleteProject", id) /\ DeleteProject(id)
           /\ resp'.status = 200)
             => /\ id \notin Ids(dbProjects')
                /\ IsUploadUrl(resp'.deleted.imageUrl)
                     => StoredUpload(resp'.deleted.imageUrl) \notin files']_vars

\* ---- C9 ----
\* C9: the value stored under 'portfolio-projects' parses to the list in
\* memory, so Load returns that list; while the key is absent the list is the
\* seed and Load returns the seed.  From the seed plus one added record X, the
\* confirmed delete of X leaves one record in memory and one in storage.
StoredListIsMemoryList ==
    /\ [](/\ localStorage.present => JsonParse(localStorage.text) = projects
          /\ ~localStorage.present => projects = Seed
          /\ LoadProjects(localStorage) = projects)
    /\ [][(/\ Len(projects) = 2 /\ SubSeq(projects, 1, 1) = Seed
           /\ DeleteClientProject(projects[2].id, TRUE))
             => /\ Len(projects') = 1
                /\ localStorage'.present
                /\ Len(localStorage'.text) = 1
                /\ JsonParse(localStorage'.text) = Seed]_vars

\* The seed alone, in memory and in storage, after an Add and the delete of
\* the added record.
SeedStoredAfterAddAndDelete ==
    /\ localStorage.present
    /\ projects = Seed
    /\ Len(localStorage.text) = 1
    /\ clock > ClockStart

\* ---- C10 ----
\* C10: Filter(c) changes neither the list in memory nor the stored list, and
\* afterwards a record's card is shown exactly when c is "all" or the
\* record's category equals c.
FilterShowsExactlyTheCategory ==
    [][\A c \in FilterValues :
          (activeFilter' = c /\ FilterProjects(c))
             => /\ projects' = projects
                /\ localStorage' = localStorage
                /\ \A i \in 1..Len(projects) :
                      Shown(grid'[i]) <=> (c = all \/ projects[i].category = c)]_vars

\* ---- C11 ----
\* C11: in the client store no two records of the project list have the same
\* id, whatever Loads, Adds and Deletes came before and whatever the clock
\* read at each Add.
ClientIdsUnique ==
    \A i, j \in 1..Len(projects) : projects[i].id = projects[j].id => i = j

\* ---- C12 ----
\* The number of records among the first k that do not carry the id.
KeptUpTo(k, id) == Cardinality({m \in 1..k : projects[m].id # id})

\* C12: a Delete whose confirmation is declined changes neither the list in
\* memory, nor the stored list, nor the cards.  A confirmed Delete(id) leaves
\* no record with that id, keeps every other record at its place among those
\* kept, stores the resulting list and renders one visible card per remaining
\* record, in list order, bound to that record's id.
DeleteNeedsConfirmation ==
    [][\A i \in 1..Len(grid), confirmed \in BOOLEAN :
          DeleteClientProject(grid[i].deleteId, confirmed)
             => LET id == grid[i].deleteId
                IN  IF ~confirmed
                    THEN /\ projects' = projects
                         /\ localStorage' = localStorage
                         /\ grid' = grid
                    ELSE /\ \A j \in 1..Len(projects') : projects'[j].id # id
                         /\ Len(projects') = KeptUpTo(Len(projects), id)
                         /\ Len(projects') < Len(projects)
                         /\ \A k \in 1..Len(projects) :
                               projects[k].id # id
                                  => projects'[KeptUpTo(k, id)] = projects[k]
                         /\ localStorage'.present
                         /\ JsonParse(localStorage'.text) = projects'
                         /\ Len(grid') = Len(projects')
                         /\ \A j \in 1..Len(grid') :
                               /\ grid'[j].deleteId = projects'[j].id
                               /\ grid'[j].classList
                                    = ClassList(projects'[j].category)
                               /\ Shown(grid'[j])]_vars

\* The seed record has been deleted from a list of three; the two added
\* records remain, in the order of their Adds, in memory, in storage and as
\* cards.
SeedDeletedOthersKept ==
    /\ Len(projects) = 2
    /\ projects[1].id = ClockStart
    /\ projects[2].id = ClockStart + 1
    /\ localStorage.present
    /\ Len(localStorage.text) = 2
    /\ Len(grid) = 2
    /\ grid[1].deleteId = ClockStart

\* ---- C13 ----
\* The cards shown are those of the records the active filter selects.
VisibilityMatchesFilter ==
    \A i \in 1..Len(grid) :
       Shown(grid[i]) <=> (activeFilter = all \/ projects[i].category = activeFilter)

\* A step that re-renders: an Add or a confirmed Delete.
IsRerender ==
    \/ \E form \in Forms, t \in clock..MaxTime : AddProject(form, t)
    \/ \E i \in 1..Len(grid) : DeleteClientProject(grid[i].deleteId, TRUE)

\* An Add or a confirmed Delete under an active filter c other than "all"
\* leaves c the active filter and a visible card for every record.
RerenderShowsEveryRecord ==
    (activeFilter # all /\ IsRerender)
       => /\ activeFilter' = activeFilter
          /\ Len(grid') = Len(projects')
          /\ \A j \in 1..Len(grid') : Shown(grid'[j])

\* C13 as stated: after Filter(c), c other than "all", an Add or a confirmed
\* Delete shows every record while c stays the active filter, and once the
\* cards shown differ from what the active filter selects they agree with it
\* again only through a Filter call (or a new page load).
RenderMismatchLastsUntilFilter ==
    /\ [][RerenderShowsEveryRecord]_vars
    /\ [][(/\ activeFilter # all
           /\ ~VisibilityMatchesFilter
           /\ VisibilityMatchesFilter')
             => \/ \E c \in FilterValues : FilterProjects(c)
                \/ Load]_vars

\* C13, amended: after Filter(c), c other than "all", an Add or a confirmed
\* Delete shows every record while c stays the active filter, so the cards
\* shown then agree with the active filter exactly when every remaining
\* record has category c; and no step other than a Filter call hides a card.
RenderIgnoresActiveFilter ==
    /\ [][RerenderShowsEveryRecord]_vars
    /\ [][(activeFilter # all /\ IsRerender)
             => (VisibilityMatchesFilter'
                   <=> \A j \in 1..Len(projects') :
                          projects'[j].category = activeFilter')]_vars
    /\ [][(\E j \in 1..Len(grid') : ~Shown(grid'[j]))
             => \/ grid' = grid
                \/ \E c \in FilterValues : FilterProjects(c)]_vars

\* The "web" filter is the active one and the card of the seed record, whose
\* category is "Game", is shown next to that of an added "web" record.
SeedShownUnderWebFilter ==
    /\ activeFilter = <<"web">>
    /\ Len(projects) = 2
    /\ projects[1] = Seed[1]
    /\ projects[2].category = <<"web">>
    /\ Len(grid) = 2
    /\ Shown(grid[1])
    /\ Shown(grid[2])

====
